---- MODULE Spec2Model ----
(***************************************************************************)
(* Model of the movie/actor catalog server: the in-memory session store    *)
(* (auth/sessions.py), the user directory (auth/users.py), the auth gate   *)
(* (auth/utils.py), the resolvers of app_graphql/schema.py and the         *)
(* application main.py mounts at /graphql.                                 *)
(*                                                                         *)
(* Conventions                                                             *)
(*   - an Optional[x] value is a set: None is {} and a present x is {x};   *)
(*   - time is counted in whole minutes since the process started;         *)
(*   - a str is a TLA+ string where it is only compared (tokens, emails,   *)
(*     messages) and a sequence of one-character strings where the code    *)
(*     looks inside it (titles, because of str.strip);                     *)
(*   - a float rating is counted in tenths (4.8 is 48).                    *)
(***************************************************************************)
EXTENDS Integers, Sequences, FiniteSets, TLC

VARIABLES
    now,          \* what _now() returns (sessions.py:13-15), in minutes
    SESSIONS,     \* sessions.py _SESSIONS: session id -> {user_id, expires_at}
    created,      \* history: session id -> when create_session last returned it
    revoked,      \* history: the stored session ids a logout has revoked
    MOVIES,       \* app_graphql/schema.py MOVIES
    ACTORS,       \* app_graphql/schema.py ACTORS
    NEXT_ID,      \* app_graphql/schema.py NEXT_ID
    mainMOVIES,   \* main.py MOVIES (a list of its own, not schema.py's)
    mainNEXT_ID,  \* main.py NEXT_ID
    last,         \* history: the last call, its arguments and what it returned
    thr,          \* concurrent requests: thread -> the call it runs, its
                  \* position in the call's code and its local variables
    base,         \* history: _SESSIONS when the running concurrent calls began
    adds          \* history: the calls begun by threads, the add_movie calls
                  \* that returned ok=true

vars == <<now, SESSIONS, created, revoked, MOVIES, ACTORS, NEXT_ID, mainMOVIES,
          mainNEXT_ID, last, thr, base, adds>>

(***************************************************************************)
(* Bounds of the model.                                                    *)
(***************************************************************************)
NumTokens == 2      \* how many distinct values uuid4().hex ranges over
MaxUserId == 2      \* create_session is called with user ids 1..MaxUserId
TickMinutes == 60   \* the clock is observed every TickMinutes minutes
MaxNow == 240       \* the clock stops here

(***************************************************************************)
(* Python values.                                                          *)
(***************************************************************************)
None == {}
Some(x) == {x}
TheValue(o) == CHOOSE x \in o : TRUE

\* bool(x) of an Optional[str]: None and "" are falsy
Truthy(o) == o # None /\ o # Some("")

EmptyDict == [k \in {} |-> {}]

\* d[k] = v
DictSet(d, k, v) == [x \in (DOMAIN d) \cup {k} |-> IF x = k THEN v ELSE d[x]]

\* d.pop(k): raises KeyError when k is missing
DictPopStrict(d, k) ==
    IF k \in DOMAIN d
    THEN [dict |-> [x \in (DOMAIN d) \ {k} |-> d[x]], raised |-> "" ]
    ELSE [dict |-> d, raised |-> "KeyError"]

\* mutant: the entry is not removed
DictPopKeeps(d, k) == [dict |-> d, raised |-> ""]

\* d.pop(k, None): removes k when present, no error when it is missing
DictPop(d, k) ==
    [dict |-> [x \in (DOMAIN d) \ {k} |-> d[x]], raised |-> ""]

(***************************************************************************)
(* auth/sessions.py                                                        *)
(***************************************************************************)
SESSION_TTL_MINUTES == 120

TokenPool == <<"a1", "b2", "c3", "d4">>

\* the values uuid.uuid4().hex can return: any of them, at every call
Uuid4Hex == {TokenPool[i] : i \in 1..NumTokens}

UserIds == 1..MaxUserId

\* what callers pass as session_id: no cookie, an empty cookie, any string
SessionIdArgs == {None, Some("")} \cup {Some(t) : t \in Uuid4Hex}

\* mutant: the expiry is computed with the wrong sign
create_session_MinusTtl(S, t, user_id, sid) ==
    [ret |-> sid,
     store |-> DictSet(S, sid, [user_id |-> user_id,
                                expires_at |-> t - SESSION_TTL_MINUTES]),
     raised |-> "",
     branch |-> "stored"]

\* mutant: the entry is stored under a key that is not the one returned
create_session_WrongKey(S, t, user_id, sid) ==
    [ret |-> sid,
     store |-> DictSet(S, TokenPool[1], [user_id |-> user_id,
                                         expires_at |-> t + SESSION_TTL_MINUTES]),
     raised |-> "",
     branch |-> "stored"]

\* mutant: a login drops the user's other sessions (one session per user)
create_session_SinglePerUser(S, t, user_id, sid) ==
    LET others == {k \in DOMAIN S : S[k].user_id # user_id} IN
    [ret |-> sid,
     store |-> DictSet([k \in others |-> S[k]], sid,
                       [user_id |-> user_id,
                        expires_at |-> t + SESSION_TTL_MINUTES]),
     raised |-> "",
     branch |-> "stored"]

\* create_session(user_id), sid being the value uuid4().hex returned, at time t
create_session(S, t, user_id, sid) ==
    [ret |-> sid,
     store |-> DictSet(S, sid, [user_id |-> user_id,
                                expires_at |-> t + SESSION_TTL_MINUTES]),
     raised |-> "",
     branch |-> "stored"]

\* mutant: the entry is already expired at its expiry time
Expired_AtExpiry(data, t) == data.expires_at <= t

\* the comparison of line 37
Expired(data, t) == data.expires_at < t

\* mutant: a successful lookup extends the session (sliding expiration)
get_user_id_Sliding(S, t, session_id) ==
    IF ~Truthy(session_id)
    THEN [ret |-> None, store |-> S, raised |-> "", branch |-> "no cookie"]
    ELSE LET sid == TheValue(session_id) IN
         IF sid \notin DOMAIN S
         THEN [ret |-> None, store |-> S, raised |-> "", branch |-> "unknown"]
         ELSE IF Expired(S[sid], t)
              THEN LET p == DictPop(S, sid) IN
                   [ret |-> None, store |-> p.dict, raised |-> p.raised,
                    branch |-> "expired"]
              ELSE [ret |-> Some(S[sid].user_id),
                    store |-> DictSet(S, sid, [user_id |-> S[sid].user_id,
                                               expires_at |-> t + SESSION_TTL_MINUTES]),
                    raised |-> "", branch |-> "valid"]

\* get_user_id(session_id) at time t
get_user_id(S, t, session_id) ==
    IF ~Truthy(session_id)
    THEN [ret |-> None, store |-> S, raised |-> "", branch |-> "no cookie"]
    ELSE LET sid == TheValue(session_id) IN
         IF sid \notin DOMAIN S
         THEN [ret |-> None, store |-> S, raised |-> "", branch |-> "unknown"]
         ELSE IF Expired(S[sid], t)
              THEN LET p == DictPop(S, sid) IN
                   [ret |-> None, store |-> p.dict, raised |-> p.raised,
                    branch |-> "expired"]
              ELSE [ret |-> Some(S[sid].user_id), store |-> S, raised |-> "",
                    branch |-> "valid"]

\* mutant: pop without a default
DeletePopStrict(S, sid) == DictPopStrict(S, sid)

\* mutant: the entry stays in the store
DeletePopKeeps(S, sid) == DictPopKeeps(S, sid)

\* the removal of line 47
DeletePop(S, sid) == DictPop(S, sid)

\* delete_session(session_id)
delete_session(S, session_id) ==
    IF Truthy(session_id)
    THEN LET p == DeletePop(S, TheValue(session_id)) IN
         [ret |-> None, store |-> p.dict, raised |-> p.raised, branch |-> "popped"]
    ELSE [ret |-> None, store |-> S, raised |-> "", branch |-> "no cookie"]

(***************************************************************************)
(* auth/users.py                                                           *)
(***************************************************************************)
\* pwd_context.hash(p): the hash is kept symbolic, it only ever meets verify
PwdHash(plain) == <<"pbkdf2_sha256", plain>>

\* pwd_context.verify(plain, hashed)
verify_password(plain_password, hashed_password) ==
    hashed_password = PwdHash(plain_password)

USERS ==
    << [id |-> 1, email |-> "demo@example.com",
        hashed_password |-> PwdHash("password123"), is_active |-> TRUE] >>

\* the loops "for x in xs: if x.id == id": the index of the first match from
\* index i on, 0 when there is none
RECURSIVE FirstWithId(_, _, _)
FirstWithId(xs, id, i) ==
    IF i > Len(xs) THEN 0
    ELSE IF xs[i].id = id THEN i
    ELSE FirstWithId(xs, id, i + 1)

RECURSIVE FirstWithEmail(_, _, _)
FirstWithEmail(xs, email, i) ==
    IF i > Len(xs) THEN 0
    ELSE IF xs[i].email = email THEN i
    ELSE FirstWithEmail(xs, email, i + 1)

get_user_by_email(email) ==
    LET i == FirstWithEmail(USERS, email, 1)
    IN  IF i = 0 THEN None ELSE Some(USERS[i])

get_user_by_id(user_id) ==
    LET i == FirstWithId(USERS, user_id, 1)
    IN  IF i = 0 THEN None ELSE Some(USERS[i])

(***************************************************************************)
(* auth/utils.py                                                           *)
(***************************************************************************)
\* context.get(key)
DictGet(d, k) == IF k \in DOMAIN d THEN d[k] ELSE None

\* the test of line 9: a User object is truthy, None is not
NoUser(user) == user = None

\* mutant: the missing user is noticed but nothing is raised
require_login_NoRaise(context) ==
    [raised |-> "", ret |-> DictGet(context, "user")]

\* require_login(info), context being info.context
require_login(context) ==
    LET user == DictGet(context, "user") IN
    IF NoUser(user)
    THEN [raised |-> "Login required", ret |-> None]
    ELSE [raised |-> "", ret |-> user]

(***************************************************************************)
(* str.strip                                                               *)
(***************************************************************************)
Whitespace == {" ", "\t", "\n", "\r", "\f"}

RECURSIVE LStrip(_)
LStrip(s) ==
    IF s # <<>> /\ Head(s) \in Whitespace THEN LStrip(Tail(s)) ELSE s

RECURSIVE RStrip(_)
RStrip(s) ==
    IF s # <<>> /\ s[Len(s)] \in Whitespace
    THEN RStrip(SubSeq(s, 1, Len(s) - 1))
    ELSE s

Strip(s) == RStrip(LStrip(s))

\* list.pop(i)
ListPop(xs, i) == SubSeq(xs, 1, i - 1) \o SubSeq(xs, i + 1, Len(xs))

(***************************************************************************)
(* app_graphql/schema.py: the catalog and its resolvers.                   *)
(* A resolver is a function of info.context, its input and the catalog     *)
(* cat = [MOVIES, ACTORS, NEXT_ID]; it yields what it raised ("" when it   *)
(* returned), what it returned and the catalog it left.                    *)
(***************************************************************************)
SeedActors ==
    << [id |-> 1, name |-> "Leonardo DiCaprio", movie_id |-> 1],
       [id |-> 2, name |-> "Joseph Gordon-Levitt", movie_id |-> 1],
       [id |-> 3, name |-> "Matthew McConaughey", movie_id |-> 2],
       [id |-> 4, name |-> "Anne Hathaway", movie_id |-> 2] >>

SeedMovies ==
    << [id |-> 1, title |-> <<"I", "n", "c", "e", "p", "t", "i", "o", "n">>,
        year |-> 2010, rating |-> 48],
       [id |-> 2, title |-> <<"I", "n", "t", "e", "r", "s", "t", "e", "l", "l", "a", "r">>,
        year |-> 2014, rating |-> 46] >>

SeedNextId == 3

\* the bounds of line 214 (and 246), in tenths
RatingMin == 0
RatingMax == 50

\* mutant: the upper bound is not tested
RatingInRange_NoUpper(rating) == RatingMin <= rating

RatingInRange(rating) == RatingMin <= rating /\ rating <= RatingMax

Catalog(movies, actors, next_id) ==
    [MOVIES |-> movies, ACTORS |-> actors, NEXT_ID |-> next_id]

Raised(what, cat) ==
    [raised |-> what, ret |-> None, MOVIES |-> cat.MOVIES, ACTORS |-> cat.ACTORS,
     NEXT_ID |-> cat.NEXT_ID]

Returned(value, cat) ==
    [raised |-> "", ret |-> value, MOVIES |-> cat.MOVIES, ACTORS |-> cat.ACTORS,
     NEXT_ID |-> cat.NEXT_ID]

\* XxxPayload(ok=..., error=..., movie=...) and (..., actor=...)
MoviePayload(ok, error, movie) == [ok |-> ok, error |-> error, movie |-> movie]
ActorPayload(ok, error, actor) == [ok |-> ok, error |-> error, actor |-> actor]

\* max((a.id for a in ACTORS), default=0)
MaxId(xs) ==
    IF xs = <<>> THEN 0
    ELSE CHOOSE m \in {xs[i].id : i \in 1..Len(xs)} :
            \A j \in 1..Len(xs) : xs[j].id <= m

\* the first index whose record has this id, 0 when there is none
IndexOfId(xs, id) == FirstWithId(xs, id, 1)

\* the setattr loop of update_actor and update_movie: a field given as None
\* keeps its value
Given(value, old) == IF value = None THEN old ELSE TheValue(value)

\* the gate as the schema.py resolvers call it (first statement of each)
Gate(context) == require_login(context)

\* mutant: the new id is the length of the list plus one
add_actor_LenPlusOne(context, input, cat) ==
    LET gate == Gate(context) IN
    IF gate.raised # "" THEN Raised(gate.raised, cat)
    ELSE LET new_id == Len(cat.ACTORS) + 1
             new_actor == [id |-> new_id, name |-> input.name,
                           movie_id |-> input.movie_id]
         IN  Returned(new_actor,
                      Catalog(cat.MOVIES, Append(cat.ACTORS, new_actor), cat.NEXT_ID))

add_actor(context, input, cat) ==
    LET gate == Gate(context) IN
    IF gate.raised # "" THEN Raised(gate.raised, cat)
    ELSE LET new_id == MaxId(cat.ACTORS) + 1
             new_actor == [id |-> new_id, name |-> input.name,
                           movie_id |-> input.movie_id]
         IN  Returned(new_actor,
                      Catalog(cat.MOVIES, Append(cat.ACTORS, new_actor), cat.NEXT_ID))

delete_actor(context, input, cat) ==
    LET gate == Gate(context) IN
    IF gate.raised # "" THEN Raised(gate.raised, cat)
    ELSE LET i == IndexOfId(cat.ACTORS, input.id) IN
         IF i # 0
         THEN Returned(ActorPayload(TRUE, None, Some(cat.ACTORS[i])),
                       Catalog(cat.MOVIES, ListPop(cat.ACTORS, i), cat.NEXT_ID))
         ELSE Returned(ActorPayload(FALSE, Some("Actor not found"), None), cat)

update_actor(context, input, cat) ==
    LET gate == Gate(context) IN
    IF gate.raised # "" THEN Raised(gate.raised, cat)
    ELSE LET i == IndexOfId(cat.ACTORS, input.id) IN
         IF i = 0
         THEN Returned(ActorPayload(FALSE, Some("Actor not found"), None), cat)
         ELSE LET target == [id |-> cat.ACTORS[i].id,
                             name |-> Given(input.name, cat.ACTORS[i].name),
                             movie_id |-> Given(input.movie_id, cat.ACTORS[i].movie_id)]
              IN  Returned(ActorPayload(TRUE, None, Some(target)),
                           Catalog(cat.MOVIES, [cat.ACTORS EXCEPT ![i] = target],
                                   cat.NEXT_ID))

\* mutant: the title is stored stripped
add_movie_StripsTitle(context, input, cat) ==
    LET gate == Gate(context) IN
    IF gate.raised # "" THEN Raised(gate.raised, cat)
    ELSE IF Strip(input.title) = <<>>
    THEN Returned(MoviePayload(FALSE, Some("Title cannot be empty"), None), cat)
    ELSE IF ~RatingInRange(input.rating)
    THEN Returned(MoviePayload(FALSE, Some("Rating must be between 0 and 5"), None), cat)
    ELSE LET new_movie == [id |-> cat.NEXT_ID, title |-> Strip(input.title),
                           year |-> input.year, rating |-> input.rating]
         IN  Returned(MoviePayload(TRUE, None, Some(new_movie)),
                      Catalog(Append(cat.MOVIES, new_movie), cat.ACTORS,
                              cat.NEXT_ID + 1))

\* mutant: the id is computed as add_actor computes it
add_movie_MaxIdPlusOne(context, input, cat) ==
    LET gate == Gate(context) IN
    IF gate.raised # "" THEN Raised(gate.raised, cat)
    ELSE IF Strip(input.title) = <<>>
    THEN Returned(MoviePayload(FALSE, Some("Title cannot be empty"), None), cat)
    ELSE IF ~RatingInRange(input.rating)
    THEN Returned(MoviePayload(FALSE, Some("Rating must be between 0 and 5"), None), cat)
    ELSE LET new_movie == [id |-> MaxId(cat.MOVIES) + 1, title |-> input.title,
                           year |-> input.year, rating |-> input.rating]
         IN  Returned(MoviePayload(TRUE, None, Some(new_movie)),
                      Catalog(Append(cat.MOVIES, new_movie), cat.ACTORS,
                              cat.NEXT_ID + 1))

add_movie(context, input, cat) ==
    LET gate == Gate(context) IN
    IF gate.raised # "" THEN Raised(gate.raised, cat)
    ELSE IF Strip(input.title) = <<>>
    THEN Returned(MoviePayload(FALSE, Some("Title cannot be empty"), None), cat)
    ELSE IF ~RatingInRange(input.rating)
    THEN Returned(MoviePayload(FALSE, Some("Rating must be between 0 and 5"), None), cat)
    ELSE LET new_movie == [id |-> cat.NEXT_ID, title |-> input.title,
                           year |-> input.year, rating |-> input.rating]
         IN  Returned(MoviePayload(TRUE, None, Some(new_movie)),
                      Catalog(Append(cat.MOVIES, new_movie), cat.ACTORS,
                              cat.NEXT_ID + 1))

\* mutant: a missing id is reported by raising
delete_movie_Raises(context, input, cat) ==
    LET gate == Gate(context) IN
    IF gate.raised # "" THEN Raised(gate.raised, cat)
    ELSE LET i == IndexOfId(cat.MOVIES, input.id) IN
         IF i # 0
         THEN Returned(MoviePayload(TRUE, None, Some(cat.MOVIES[i])),
                       Catalog(ListPop(cat.MOVIES, i), cat.ACTORS, cat.NEXT_ID))
         ELSE Raised("Movie not found", cat)

delete_movie(context, input, cat) ==
    LET gate == Gate(context) IN
    IF gate.raised # "" THEN Raised(gate.raised, cat)
    ELSE LET i == IndexOfId(cat.MOVIES, input.id) IN
         IF i # 0
         THEN Returned(MoviePayload(TRUE, None, Some(cat.MOVIES[i])),
                       Catalog(ListPop(cat.MOVIES, i), cat.ACTORS, cat.NEXT_ID))
         ELSE Returned(MoviePayload(FALSE, Some("Movie not found"), None), cat)

\* mutant: the supplied fields are written before the rating is validated
update_movie_ValidatesLate(context, input, cat) ==
    LET gate == Gate(context) IN
    IF gate.raised # "" THEN Raised(gate.raised, cat)
    ELSE LET i == IndexOfId(cat.MOVIES, input.id) IN
         IF i = 0
         THEN Returned(MoviePayload(FALSE, Some("Rating must be between 0 and 5"), None),
                       cat)
         ELSE IF input.rating # None /\ ~RatingInRange(TheValue(input.rating))
         THEN LET target == [id |-> cat.MOVIES[i].id,
                             title |-> Given(input.title, cat.MOVIES[i].title),
                             year |-> Given(input.year, cat.MOVIES[i].year),
                             rating |-> cat.MOVIES[i].rating]
              IN  Returned(MoviePayload(FALSE, Some("Rating must be between 0 and 5"),
                                        None),
                           Catalog([cat.MOVIES EXCEPT ![i] = target], cat.ACTORS,
                                   cat.NEXT_ID))
         ELSE LET target == [id |-> cat.MOVIES[i].id,
                             title |-> Given(input.title, cat.MOVIES[i].title),
                             year |-> Given(input.year, cat.MOVIES[i].year),
                             rating |-> Given(input.rating, cat.MOVIES[i].rating)]
              IN  Returned(MoviePayload(TRUE, None, Some(target)),
                           Catalog([cat.MOVIES EXCEPT ![i] = target], cat.ACTORS,
                                   cat.NEXT_ID))

update_movie(context, input, cat) ==
    LET gate == Gate(context) IN
    IF gate.raised # "" THEN Raised(gate.raised, cat)
    ELSE LET i == IndexOfId(cat.MOVIES, input.id) IN
         IF i = 0
         THEN Returned(MoviePayload(FALSE, Some("Rating must be between 0 and 5"), None),
                       cat)
         ELSE IF input.rating # None /\ ~RatingInRange(TheValue(input.rating))
         THEN Returned(MoviePayload(FALSE, Some("Rating must be between 0 and 5"), None),
                       cat)
         ELSE LET target == [id |-> cat.MOVIES[i].id,
                             title |-> Given(input.title, cat.MOVIES[i].title),
                             year |-> Given(input.year, cat.MOVIES[i].year),
                             rating |-> Given(input.rating, cat.MOVIES[i].rating)]
              IN  Returned(MoviePayload(TRUE, None, Some(target)),
                           Catalog([cat.MOVIES EXCEPT ![i] = target], cat.ACTORS,
                                   cat.NEXT_ID))

(***************************************************************************)
(* main.py: the application mounted at /graphql. Its schema is built from  *)
(* main.py's own Mutation, whose resolvers take no info and act on         *)
(* main.py's own MOVIES and NEXT_ID.                                       *)
(***************************************************************************)
main_add_movie(input, cat) ==
    IF Strip(input.title) = <<>>
    THEN Returned(MoviePayload(FALSE, Some("Title cannot be empty"), None), cat)
    ELSE IF ~RatingInRange(input.rating)
    THEN Returned(MoviePayload(FALSE, Some("Rating must be between 0 and 5"), None), cat)
    ELSE LET new_movie == [id |-> cat.NEXT_ID, title |-> input.title,
                           year |-> input.year, rating |-> input.rating]
         IN  Returned(MoviePayload(TRUE, None, Some(new_movie)),
                      Catalog(Append(cat.MOVIES, new_movie), cat.ACTORS,
                              cat.NEXT_ID + 1))

main_delete_movie(input, cat) ==
    LET i == IndexOfId(cat.MOVIES, input.id) IN
    IF i # 0
    THEN Returned(MoviePayload(TRUE, None, Some(cat.MOVIES[i])),
                  Catalog(ListPop(cat.MOVIES, i), cat.ACTORS, cat.NEXT_ID))
    ELSE Returned(MoviePayload(FALSE, Some("Movie not found"), None), cat)

main_update_movie(input, cat) ==
    LET i == IndexOfId(cat.MOVIES, input.id) IN
    IF i = 0
    THEN Returned(MoviePayload(FALSE, Some("Rating must be between 0 and 5"), None), cat)
    ELSE IF input.rating # None /\ ~RatingInRange(TheValue(input.rating))
    THEN Returned(MoviePayload(FALSE, Some("Rating must be between 0 and 5"), None), cat)
    ELSE LET target == [id |-> cat.MOVIES[i].id,
                        title |-> Given(input.title, cat.MOVIES[i].title),
                        year |-> Given(input.year, cat.MOVIES[i].year),
                        rating |-> Given(input.rating, cat.MOVIES[i].rating)]
         IN  Returned(MoviePayload(TRUE, None, Some(target)),
                      Catalog([cat.MOVIES EXCEPT ![i] = target], cat.ACTORS,
                              cat.NEXT_ID))

(***************************************************************************)
(* The inputs the model draws from.                                        *)
(***************************************************************************)
MaxNextId == 4     \* no call of add_movie takes NEXT_ID beyond this
MaxActors == 5     \* no call of add_actor makes ACTORS longer than this
NumThreads == 2    \* how many requests are served at the same time
MaxCalls == 3      \* how many catalog calls the concurrent requests make in all

Blank == <<" ", "\t">>
Up == <<" ", "U", "p">>

TitleArgs == {<<>>, Blank, Up}
YearArgs == {2021}
RatingArgs == {RatingMin - 1, RatingMin, RatingMax, RatingMax + 1}

AddMovieInputs == [title : TitleArgs, year : YearArgs, rating : RatingArgs]
MovieIdArgs == {0, 2} \cup (SeedNextId..(MaxNextId - 1))
DeleteMovieInputs == [id : MovieIdArgs]
UpdateMovieInputs ==
    [id : MovieIdArgs, title : {None, Some(Up)}, year : {None, Some(2021)},
     rating : {None, Some(RatingMax), Some(RatingMax + 1)}]

AddActorInputs == [name : {"Zendaya"}, movie_id : {9}]
ActorIdArgs == {0} \cup ((MaxActors - 1)..MaxActors)
DeleteActorInputs == [id : ActorIdArgs]
UpdateActorInputs ==
    [id : ActorIdArgs, name : {None, Some("Zendaya")}, movie_id : {None, Some(9)}]

\* info.context as the resolvers of schema.py can meet it: without the key,
\* with no user, with the user the directory holds
Contexts == {EmptyDict, [user |-> None], [user |-> Some(USERS[1])]}

\* the context strawberry builds when the router is given no context getter
\* (main.py line 175)
MainContext == [request |-> "request", response |-> "response"]

Cat == Catalog(MOVIES, ACTORS, NEXT_ID)
MainCat == Catalog(mainMOVIES, SeedActors, mainNEXT_ID)

(***************************************************************************)
(* The state after the modules are imported.                               *)
(***************************************************************************)
\* the requests served at the same time, one thread each
Threads == 1..NumThreads
\* a thread that is serving no request
Idle == [pc |-> "idle"]

Init ==
    /\ now = 0
    /\ SESSIONS = EmptyDict
    /\ created = EmptyDict
    /\ revoked = {}
    /\ MOVIES = SeedMovies
    /\ ACTORS = SeedActors
    /\ NEXT_ID = SeedNextId
    /\ mainMOVIES = SeedMovies
    /\ mainNEXT_ID = SeedNextId
    /\ last = [op |-> "init"]
    /\ thr = [t \in Threads |-> Idle]
    /\ base = EmptyDict
    /\ adds = [calls |-> 0, movies |-> 0]

catalogVars == <<MOVIES, ACTORS, NEXT_ID>>
mainVars == <<mainMOVIES, mainNEXT_ID>>
sessionVars == <<SESSIONS, created, revoked>>
threadVars == <<thr, base, adds>>

\* every session id create_session has returned so far
Issued == DOMAIN created

(***************************************************************************)
(* The session store's operations.                                         *)
(***************************************************************************)
Tick ==
    /\ now + TickMinutes <= MaxNow
    /\ now' = now + TickMinutes
    /\ last' = [op |-> "tick"]
    /\ UNCHANGED <<sessionVars, catalogVars, mainVars, threadVars>>

CreateSession ==
    \E user_id \in UserIds, sid \in Uuid4Hex :
        LET r == create_session(SESSIONS, now, user_id, sid) IN
        /\ SESSIONS' = r.store
        /\ created' = DictSet(created, r.ret, now)
        /\ UNCHANGED revoked
        /\ last' = [op |-> "create_session", arg |-> user_id, ret |-> r.ret,
                    raised |-> r.raised, branch |-> r.branch,
                    fresh |-> r.ret \notin Issued,
                    live |-> r.ret \in DOMAIN SESSIONS]
        /\ UNCHANGED <<now, catalogVars, mainVars, threadVars>>

GetUserId ==
    \E session_id \in SessionIdArgs :
        LET r == get_user_id(SESSIONS, now, session_id) IN
        /\ SESSIONS' = r.store
        /\ last' = [op |-> "get_user_id", arg |-> session_id, ret |-> r.ret,
                    raised |-> r.raised, branch |-> r.branch]
        /\ UNCHANGED <<now, created, revoked, catalogVars, mainVars, threadVars>>

DeleteSession ==
    \E session_id \in SessionIdArgs :
        LET r == delete_session(SESSIONS, session_id) IN
        /\ SESSIONS' = r.store
        /\ last' = [op |-> "delete_session", arg |-> session_id, ret |-> r.ret,
                    raised |-> r.raised, branch |-> r.branch,
                    held |-> session_id \subseteq DOMAIN SESSIONS]
        /\ UNCHANGED <<now, created, revoked, catalogVars, mainVars, threadVars>>

Next == Tick \/ CreateSession \/ GetUserId \/ DeleteSession

Spec == Init /\ [][Next]_vars

(***************************************************************************)
(* The resolvers of app_graphql/schema.py, each called with a context and  *)
(* an input (specification SpecCatalog).                                   *)
(***************************************************************************)
\* the record of a resolver call: what it was given, what it did
Call(op, context, input, r) ==
    [op |-> op, user |-> DictGet(context, "user"), ret |-> r.ret,
     raised |-> r.raised]

Resolve(op, context, input, r) ==
    /\ MOVIES' = r.MOVIES
    /\ ACTORS' = r.ACTORS
    /\ NEXT_ID' = r.NEXT_ID
    /\ last' = Call(op, context, input, r)
    /\ UNCHANGED <<now, sessionVars, mainVars, threadVars>>

AddActor ==
    \E context \in Contexts, input \in AddActorInputs :
        /\ Len(add_actor(context, input, Cat).ACTORS) <= MaxActors
        /\ Resolve("add_actor", context, input, add_actor(context, input, Cat))

DeleteActor ==
    \E context \in Contexts, input \in DeleteActorInputs :
        Resolve("delete_actor", context, input, delete_actor(context, input, Cat))

UpdateActor ==
    \E context \in Contexts, input \in UpdateActorInputs :
        Resolve("update_actor", context, input, update_actor(context, input, Cat))

AddMovie ==
    \E context \in Contexts, input \in AddMovieInputs :
        /\ add_movie(context, input, Cat).NEXT_ID <= MaxNextId
        /\ Resolve("add_movie", context, input, add_movie(context, input, Cat))

DeleteMovie ==
    \E context \in Contexts, input \in DeleteMovieInputs :
        Resolve("delete_movie", context, input, delete_movie(context, input, Cat))

UpdateMovie ==
    \E context \in Contexts, input \in UpdateMovieInputs :
        Resolve("update_movie", context, input, update_movie(context, input, Cat))

NextCatalog ==
    AddActor \/ DeleteActor \/ UpdateActor \/ AddMovie \/ DeleteMovie \/ UpdateMovie

SpecCatalog == Init /\ [][NextCatalog]_vars

(***************************************************************************)
(* The application main.py mounts at /graphql (specification SpecMain).    *)
(* A request carries a cookie or none; nothing in main.py reads it.        *)
(***************************************************************************)
MainCall(op, cookie, r) ==
    [op |-> op, cookie |-> cookie, user |-> DictGet(MainContext, "user"),
     ret |-> r.ret, raised |-> r.raised]

MainResolve(op, cookie, r) ==
    /\ mainMOVIES' = r.MOVIES
    /\ mainNEXT_ID' = r.NEXT_ID
    /\ last' = MainCall(op, cookie, r)
    /\ UNCHANGED <<now, sessionVars, catalogVars, threadVars>>

MainAddMovie ==
    \E cookie \in SessionIdArgs, input \in AddMovieInputs :
        /\ main_add_movie(input, MainCat).NEXT_ID <= MaxNextId
        /\ MainResolve("main.add_movie", cookie, main_add_movie(input, MainCat))

MainDeleteMovie ==
    \E cookie \in SessionIdArgs, input \in DeleteMovieInputs :
        MainResolve("main.delete_movie", cookie, main_delete_movie(input, MainCat))

MainUpdateMovie ==
    \E cookie \in SessionIdArgs, input \in UpdateMovieInputs :
        MainResolve("main.update_movie", cookie, main_update_movie(input, MainCat))

NextMain == MainAddMovie \/ MainDeleteMovie \/ MainUpdateMovie

SpecMain == Init /\ [][NextMain]_vars

(***************************************************************************)
(* Requests through the session layer (specification SpecApp): login,      *)
(* logout and the add_movie mutation behind the request context builder.   *)
(***************************************************************************)
\* the request context builder: the cookie is resolved by the session store
\* and the user id by the user directory
get_context(S, t, cookie) ==
    LET r == get_user_id(S, t, cookie)
        user == IF r.ret # None THEN get_user_by_id(TheValue(r.ret)) ELSE None
    IN  [context |-> [user |-> user, session_id |-> cookie], store |-> r.store]

\* the user directory's check of a login
verify_credentials(email, password) ==
    LET user == get_user_by_email(email) IN
    IF user = None THEN None
    ELSE IF ~TheValue(user).is_active THEN None
    ELSE IF ~verify_password(password, TheValue(user).hashed_password) THEN None
    ELSE user

Credentials ==
    { [email |-> "demo@example.com", password |-> "password123"],
      [email |-> "demo@example.com", password |-> "letmein"],
      [email |-> "nobody@example.com", password |-> "password123"] }

\* the login endpoint: a session for the verified user, its token in the cookie
Login ==
    \E cred \in Credentials, sid \in Uuid4Hex :
        LET user == verify_credentials(cred.email, cred.password) IN
        IF user = None
        THEN /\ last' = [op |-> "login", cookie |-> None, user |-> None,
                         ret |-> None, raised |-> "InvalidCredentials"]
             /\ UNCHANGED <<now, sessionVars, catalogVars, mainVars, threadVars>>
        ELSE LET r == create_session(SESSIONS, now, TheValue(user).id, sid) IN
             /\ SESSIONS' = r.store
             /\ created' = DictSet(created, r.ret, now)
             /\ last' = [op |-> "login", cookie |-> None, user |-> user,
                         ret |-> Some(r.ret), raised |-> r.raised]
             /\ UNCHANGED <<now, revoked, catalogVars, mainVars, threadVars>>

\* the logout endpoint: the cookie's session is revoked
Logout ==
    \E cookie \in SessionIdArgs :
        LET r == delete_session(SESSIONS, cookie) IN
        /\ SESSIONS' = r.store
        /\ revoked' = revoked \cup (cookie \cap DOMAIN SESSIONS)
        /\ last' = [op |-> "logout", cookie |-> cookie, user |-> None,
                    ret |-> None, raised |-> r.raised]
        /\ UNCHANGED <<now, created, catalogVars, mainVars, threadVars>>

\* the inputs of the requests: one add_movie accepts, one it rejects
RequestInputs == {i \in AddMovieInputs : i.title = Up /\ i.rating >= RatingMax}

\* a graph request that carries the cookie and calls add_movie
AddMovieRequest ==
    \E cookie \in SessionIdArgs, input \in RequestInputs :
        LET built == get_context(SESSIONS, now, cookie)
            r == add_movie(built.context, input, Cat)
        IN  /\ r.NEXT_ID <= MaxNextId
            /\ SESSIONS' = built.store
            /\ MOVIES' = r.MOVIES
            /\ ACTORS' = r.ACTORS
            /\ NEXT_ID' = r.NEXT_ID
            /\ last' = [op |-> "request", cookie |-> cookie,
                        user |-> built.context.user, ret |-> r.ret,
                        raised |-> r.raised]
            /\ UNCHANGED <<now, created, revoked, mainVars, threadVars>>

NextApp == Tick \/ Login \/ Logout \/ AddMovieRequest

SpecApp == Init /\ [][NextApp]_vars

(***************************************************************************)
(* Concurrent requests on the session store (specification SpecStore-      *)
(* Threads). sessions.py takes no lock: a thread can be pre-empted between *)
(* any two accesses to _SESSIONS, each access (dict.get, dict.pop, item    *)
(* assignment) being one indivisible step of the interpreter. The threads  *)
(* begin their calls together and the clock stands still while they run.   *)
(***************************************************************************)
AllIdle == \A t \in Threads : thr[t].pc = "idle"
AllDone == \A t \in Threads : thr[t].pc = "done"

\* _SESSIONS.get(session_id) (sessions.py:33)
StoreGet(S, k) == IF k \in DOMAIN S THEN Some(S[k]) ELSE None

StoreCalls ==
    {[op |-> "get_user_id", session_id |-> s, user_id |-> 0] : s \in SessionIdArgs}
    \cup {[op |-> "create_session", session_id |-> None, user_id |-> u] :
            u \in UserIds}
    \cup {[op |-> "delete_session", session_id |-> s, user_id |-> 0] :
            s \in SessionIdArgs}

\* the thread's frame when the call begins
StoreFrame(call) ==
    [pc |-> CASE call.op = "get_user_id" -> "lookup"
              [] call.op = "create_session" -> "store"
              [] call.op = "delete_session" -> "delete",
     op |-> call.op, session_id |-> call.session_id, user_id |-> call.user_id,
     data |-> None, sid |-> None, ret |-> None]

StoreReturn(frame, ret) == [frame EXCEPT !.pc = "done", !.ret = ret]

StoreBegin ==
    /\ AllIdle
    /\ \E calls \in [Threads -> StoreCalls] :
          thr' = [t \in Threads |-> StoreFrame(calls[t])]
    /\ base' = SESSIONS
    /\ UNCHANGED <<now, sessionVars, catalogVars, mainVars, adds, last>>

\* get_user_id, lines 30-33: the test of the argument and the lookup
GetLookup(t) ==
    /\ thr[t].pc = "lookup"
    /\ thr' = [thr EXCEPT ![t] =
                 IF ~Truthy(thr[t].session_id)
                 THEN StoreReturn(thr[t], None)
                 ELSE [thr[t] EXCEPT
                         !.pc = "compare",
                         !.data = StoreGet(SESSIONS, TheValue(thr[t].session_id))]]
    /\ UNCHANGED <<now, sessionVars, catalogVars, mainVars, base, adds, last>>

\* get_user_id, lines 34-37 and 41: the tests of the entry that was read
GetCompare(t) ==
    /\ thr[t].pc = "compare"
    /\ thr' = [thr EXCEPT ![t] =
                 IF thr[t].data = None
                 THEN StoreReturn(thr[t], None)
                 ELSE IF Expired(TheValue(thr[t].data), now)
                 THEN [thr[t] EXCEPT !.pc = "pop"]
                 ELSE StoreReturn(thr[t], Some(TheValue(thr[t].data).user_id))]
    /\ UNCHANGED <<now, sessionVars, catalogVars, mainVars, base, adds, last>>

\* get_user_id, lines 38-39: the removal
GetPop(t) ==
    /\ thr[t].pc = "pop"
    /\ SESSIONS' = DictPop(SESSIONS, TheValue(thr[t].session_id)).dict
    /\ thr' = [thr EXCEPT ![t] = StoreReturn(thr[t], None)]
    /\ UNCHANGED <<now, created, revoked, catalogVars, mainVars, base, adds, last>>

\* create_session: its one access to _SESSIONS is the assignment of line 21
CreateStore(t) ==
    /\ thr[t].pc = "store"
    /\ \E sid \in Uuid4Hex :
          LET r == create_session(SESSIONS, now, thr[t].user_id, sid) IN
          /\ SESSIONS' = r.store
          /\ thr' = [thr EXCEPT ![t] = [thr[t] EXCEPT !.pc = "done",
                                                      !.sid = Some(r.ret)]]
    /\ UNCHANGED <<now, created, revoked, catalogVars, mainVars, base, adds, last>>

\* delete_session: its one access to _SESSIONS is the pop of line 47
DeleteStore(t) ==
    /\ thr[t].pc = "delete"
    /\ SESSIONS' = delete_session(SESSIONS, thr[t].session_id).store
    /\ thr' = [thr EXCEPT ![t] = StoreReturn(thr[t], None)]
    /\ UNCHANGED <<now, created, revoked, catalogVars, mainVars, base, adds, last>>

\* every call has returned: the threads are free for the next requests
StoreFinish ==
    /\ AllDone
    /\ thr' = [t \in Threads |-> Idle]
    /\ base' = EmptyDict
    /\ UNCHANGED <<now, sessionVars, catalogVars, mainVars, adds, last>>

IdleTick == AllIdle /\ Tick

NextStoreThreads ==
    \/ IdleTick
    \/ StoreBegin
    \/ \E t \in Threads : GetLookup(t)
    \/ \E t \in Threads : GetCompare(t)
    \/ \E t \in Threads : GetPop(t)
    \/ \E t \in Threads : CreateStore(t)
    \/ \E t \in Threads : DeleteStore(t)
    \/ StoreFinish

SpecStoreThreads == Init /\ [][NextStoreThreads]_vars

(***************************************************************************)
(* Concurrent authenticated requests on the catalog (specification         *)
(* SpecCatalogThreads). schema.py takes no lock: add_movie reads NEXT_ID   *)
(* into the new Movie, appends it, then runs NEXT_ID += 1, which loads     *)
(* NEXT_ID and stores the sum as two steps; add_actor computes max id + 1  *)
(* over ACTORS, then appends.                                              *)
(***************************************************************************)
\* the context of a request whose session resolved to the demo user
LoggedIn == [user |-> Some(USERS[1])]

\* one input add_movie accepts, one it rejects
ThreadMovieInputs == {i \in AddMovieInputs : i.title = Up /\ i.rating >= RatingMax}

CatalogCalls ==
    {[op |-> "add_movie", input |-> i] : i \in ThreadMovieInputs}
    \cup {[op |-> "add_actor", input |-> [title |-> <<>>, year |-> 0, rating |-> 0]]}

\* the thread's frame when the resolver is entered
CatalogFrame(call) ==
    [pc |-> IF call.op = "add_movie" THEN "read" ELSE "max",
     op |-> call.op, input |-> call.input, new |-> None, tmp |-> 0]

CatalogBegin(t) ==
    /\ thr[t].pc = "idle"
    /\ adds.calls < MaxCalls
    /\ \E call \in CatalogCalls : thr' = [thr EXCEPT ![t] = CatalogFrame(call)]
    /\ adds' = [adds EXCEPT !.calls = @ + 1]
    /\ UNCHANGED <<now, sessionVars, catalogVars, mainVars, base, last>>

\* add_movie, lines 208-218: the gate, the validation, and the new Movie
\* built with the NEXT_ID of this moment
MovieRead(t) ==
    /\ thr[t].pc = "read"
    /\ LET r == add_movie(LoggedIn, thr[t].input, Cat) IN
       thr' = [thr EXCEPT ![t] =
                 IF r.raised # "" \/ ~r.ret.ok THEN Idle
                 ELSE [thr[t] EXCEPT !.pc = "append", !.new = r.ret.movie]]
    /\ UNCHANGED <<now, sessionVars, catalogVars, mainVars, base, adds, last>>

\* add_movie, line 219: MOVIES.append(new_movie)
MovieAppend(t) ==
    /\ thr[t].pc = "append"
    /\ MOVIES' = Append(MOVIES, TheValue(thr[t].new))
    /\ thr' = [thr EXCEPT ![t] = [thr[t] EXCEPT !.pc = "load"]]
    /\ UNCHANGED <<now, sessionVars, ACTORS, NEXT_ID, mainVars, base, adds, last>>

\* add_movie, line 220: NEXT_ID += 1 reads NEXT_ID ...
MovieLoad(t) ==
    /\ thr[t].pc = "load"
    /\ thr' = [thr EXCEPT ![t] = [thr[t] EXCEPT !.pc = "bump", !.tmp = NEXT_ID]]
    /\ UNCHANGED <<now, sessionVars, catalogVars, mainVars, base, adds, last>>

\* ... and stores the sum; line 223 returns the payload with ok=True
MovieBump(t) ==
    /\ thr[t].pc = "bump"
    /\ NEXT_ID' = thr[t].tmp + 1
    /\ thr' = [thr EXCEPT ![t] = Idle]
    /\ adds' = [adds EXCEPT !.movies = @ + 1]
    /\ UNCHANGED <<now, sessionVars, MOVIES, ACTORS, mainVars, base, last>>

\* add_actor, lines 171-173: the gate and the new Actor with max id + 1
ActorMax(t) ==
    /\ thr[t].pc = "max"
    /\ LET r == add_actor(LoggedIn, [name |-> "Zendaya", movie_id |-> 9], Cat) IN
       thr' = [thr EXCEPT ![t] =
                 IF r.raised # "" THEN Idle
                 ELSE [thr[t] EXCEPT !.pc = "append actor", !.new = Some(r.ret)]]
    /\ UNCHANGED <<now, sessionVars, catalogVars, mainVars, base, adds, last>>

\* add_actor, lines 174-175: ACTORS.append(new_actor); return new_actor
ActorAppend(t) ==
    /\ thr[t].pc = "append actor"
    /\ ACTORS' = Append(ACTORS, TheValue(thr[t].new))
    /\ thr' = [thr EXCEPT ![t] = Idle]
    /\ UNCHANGED <<now, sessionVars, MOVIES, NEXT_ID, mainVars, base, adds, last>>

NextCatalogThreads ==
    \/ \E t \in Threads : CatalogBegin(t)
    \/ \E t \in Threads : MovieRead(t)
    \/ \E t \in Threads : MovieAppend(t)
    \/ \E t \in Threads : MovieLoad(t)
    \/ \E t \in Threads : MovieBump(t)
    \/ \E t \in Threads : ActorMax(t)
    \/ \E t \in Threads : ActorAppend(t)

SpecCatalogThreads == Init /\ [][NextCatalogThreads]_vars

(***************************************************************************)
(* The actor mutations alone, called one after the other by a logged-in    *)
(* user, with every actor id as a target (specification SpecActors): the   *)
(* list can be emptied and refilled.                                       *)
(***************************************************************************)
AnyActorId == 1..MaxActors
RenameActorInputs == [id : AnyActorId, name : {Some("Zendaya")}, movie_id : {None}]

SeqAddActor ==
    \E input \in AddActorInputs :
        /\ Len(add_actor(LoggedIn, input, Cat).ACTORS) <= MaxActors
        /\ Resolve("add_actor", LoggedIn, input, add_actor(LoggedIn, input, Cat))

SeqDeleteActor ==
    \E input \in [id : AnyActorId] :
        Resolve("delete_actor", LoggedIn, input, delete_actor(LoggedIn, input, Cat))

SeqUpdateActor ==
    \E input \in RenameActorInputs :
        Resolve("update_actor", LoggedIn, input, update_actor(LoggedIn, input, Cat))

NextActors == SeqAddActor \/ SeqDeleteActor \/ SeqUpdateActor

SpecActors == Init /\ [][NextActors]_vars

(***************************************************************************)
(* The session store (specification Spec).                                 *)
(***************************************************************************)
Absent(r) == r.ret = None /\ r.raised = ""

\* C1: get_user_id on a stored token whose expires_at is strictly before the
\* current time returns None without raising and removes the entry, and a
\* second get_user_id on the same token returns None without raising too and
\* finds nothing left to remove.
C1_ExpiredResolveRemoves ==
    [][\A t \in DOMAIN SESSIONS :
          (/\ SESSIONS[t].expires_at < now
           /\ last'.op = "get_user_id"
           /\ last'.arg = Some(t))
          => /\ last'.ret = None
             /\ last'.raised = ""
             /\ t \notin DOMAIN SESSIONS'
             /\ \A u \in DOMAIN SESSIONS \ {t} :
                    u \in DOMAIN SESSIONS' /\ SESSIONS'[u] = SESSIONS[u]
             /\ LET second == get_user_id(SESSIONS', now', Some(t)) IN
                Absent(second) /\ second.store = SESSIONS']_vars

\* an expired entry has been looked up and is gone
C1_Witness ==
    /\ last.op = "get_user_id"
    /\ last.branch = "expired"
    /\ last.arg \cap DOMAIN SESSIONS = {}
    /\ \E t \in last.arg : created[t] + SESSION_TTL_MINUTES < now

\* C2: for every argument (a live, an expired or an unknown token, None, ""),
\* delete_session raises nothing, get_user_id on the same argument then
\* returns None, and a second delete_session raises nothing and leaves the
\* store as the first one left it.
C2_RevokeIdempotent ==
    [][last'.op = "delete_session"
       => LET a == last'.arg
              after == get_user_id(SESSIONS', now', a)
              again == delete_session(SESSIONS', a)
          IN  /\ last'.raised = ""
              /\ Absent(after)
              /\ again.raised = ""
              /\ again.store = SESSIONS']_vars

\* a token the store held has been revoked
C2_Witness ==
    /\ last.op = "delete_session"
    /\ last.held
    /\ Truthy(last.arg)
    /\ last.arg \cap DOMAIN SESSIONS = {}

\* C3: the token create_session(u) returns resolves to u, at once and at later
\* times up to the session's expires_at, as long as it is not revoked.
C3_CreateThenResolve ==
    [][last'.op = "create_session"
       => /\ Truthy(Some(last'.ret))
          /\ \A t \in {now', now' + TickMinutes, now' + SESSION_TTL_MINUTES - 1,
                      now' + SESSION_TTL_MINUTES} :
                LET r == get_user_id(SESSIONS', t, Some(last'.ret)) IN
                r.ret = Some(last'.arg) /\ r.raised = "" /\ r.store = SESSIONS']_vars

\* a session has just been created for user 2 while user 1 holds one
C3_Witness ==
    /\ last.op = "create_session"
    /\ last.arg = 2
    /\ last.ret \in DOMAIN SESSIONS
    /\ \E t \in DOMAIN SESSIONS : SESSIONS[t].user_id = 1

ExpiryIsCreationPlusTtl ==
    \A t \in DOMAIN SESSIONS :
        /\ t \in Issued
        /\ SESSIONS[t].expires_at = created[t] + SESSION_TTL_MINUTES

\* C4: every entry's expires_at is the time of the create_session call that
\* wrote it plus 120 minutes, and a get_user_id that returns a user id leaves
\* the whole store unchanged.
C4_FixedTtl ==
    [][/\ SESSION_TTL_MINUTES = 120
       /\ ExpiryIsCreationPlusTtl
       /\ ExpiryIsCreationPlusTtl'
       /\ (last'.op = "get_user_id" /\ last'.ret # None) => SESSIONS' = SESSIONS]_vars

\* a session created earlier has been resolved successfully later on
C4_Witness ==
    /\ last.op = "get_user_id"
    /\ last.ret # None
    /\ \E t \in last.arg : created[t] < now /\ t \in DOMAIN SESSIONS

Removed == Issued \ DOMAIN SESSIONS

\* C5 as stated: a token removed from the store never resolves to a user
\* again, and every create_session returns a token never issued before.
C5_AsStated ==
    [][/\ \A t \in Removed : get_user_id(SESSIONS', now', Some(t)).ret = None
       /\ last'.op = "create_session" => last'.ret \notin Issued]_vars

\* C5 as amended: every stored token was issued by create_session; a token
\* that is not in the store resolves to no user; get_user_id and
\* delete_session never bring a removed token back, and a step that does
\* bring one back is a create_session call whose uuid4 draw is that very
\* token (the code compares the draw with nothing).
C5_RevivedOnlyByRedraw ==
    [][/\ DOMAIN SESSIONS \subseteq Issued
       /\ DOMAIN SESSIONS' \subseteq Issued'
       /\ \A t \in Uuid4Hex \ DOMAIN SESSIONS :
             Absent(get_user_id(SESSIONS, now, Some(t)))
       /\ \A t \in Removed :
             t \in DOMAIN SESSIONS'
             => last'.op = "create_session" /\ last'.ret = t]_vars

\* a removed token is back in the store after create_session drew it again
C5_Witness ==
    /\ last.op = "create_session"
    /\ ~last.fresh
    /\ ~last.live
    /\ last.ret \in DOMAIN SESSIONS

\* C6 as stated: the token create_session returns is none of the stored ones,
\* and the store afterwards is the previous entries plus one new entry.
C6_AsStated ==
    [][last'.op = "create_session"
       => /\ last'.ret \notin DOMAIN SESSIONS
          /\ Cardinality(DOMAIN SESSIONS') = Cardinality(DOMAIN SESSIONS) + 1
          /\ \A t \in DOMAIN SESSIONS :
                t \in DOMAIN SESSIONS' /\ SESSIONS'[t] = SESSIONS[t]]_vars

\* C6 as amended: create_session changes no entry but the one keyed by the
\* token it returns, which afterwards holds the new session; when that token
\* was not in the store, the store is the previous entries plus one new
\* entry; the sessions a user holds under other tokens stay and resolve to
\* that user. (When uuid4 draws a stored token, that entry is overwritten.)
C6_CreateTouchesOneKey ==
    [][last'.op = "create_session"
       => LET sid == last'.ret IN
          /\ DOMAIN SESSIONS' = DOMAIN SESSIONS \cup {sid}
          /\ SESSIONS'[sid] = [user_id |-> last'.arg,
                               expires_at |-> now + SESSION_TTL_MINUTES]
          /\ \A t \in DOMAIN SESSIONS \ {sid} :
                /\ SESSIONS'[t] = SESSIONS[t]
                /\ get_user_id(SESSIONS', now', Some(t)).ret
                     = get_user_id(SESSIONS, now, Some(t)).ret
          /\ sid \notin DOMAIN SESSIONS
             => Cardinality(DOMAIN SESSIONS') = Cardinality(DOMAIN SESSIONS) + 1]_vars

\* one user holds two sessions, the second just created under a new token
C6_Witness ==
    /\ last.op = "create_session"
    /\ ~last.live
    /\ \E t \in DOMAIN SESSIONS \ {last.ret} :
          /\ SESSIONS[t].user_id = last.arg
          /\ get_user_id(SESSIONS, now, Some(t)).ret = Some(last.arg)
          /\ get_user_id(SESSIONS, now, Some(last.ret)).ret = Some(last.arg)

(***************************************************************************)
(* The resolvers of app_graphql/schema.py (specification SpecCatalog).     *)
(***************************************************************************)
CatalogOps ==
    {"add_actor", "delete_actor", "update_actor", "add_movie", "delete_movie",
     "update_movie"}

AnonymousContexts == {c \in Contexts : DictGet(c, "user") = None}
AuthedContexts == Contexts \ AnonymousContexts

\* C7: each of the six mutations of schema.py, called with a context that
\* holds no resolved user, fails with the error require_login raises
\* ("Login required") and leaves MOVIES, ACTORS and NEXT_ID as they were, for
\* every input (every step of a mutation whose context holds no user).
C7_AnonymousMutationRefused ==
    [][(last'.op \in CatalogOps /\ last'.user = None)
       => /\ last'.raised = "Login required"
          /\ last'.ret = None
          /\ UNCHANGED <<MOVIES, ACTORS, NEXT_ID>>]_vars

\* a mutation was refused after authenticated mutations had changed all three
C7_Witness ==
    /\ last.op \in CatalogOps
    /\ last.user = None
    /\ last.raised = "Login required"
    /\ MOVIES # SeedMovies /\ ACTORS # SeedActors /\ NEXT_ID # SeedNextId

TitleError == MoviePayload(FALSE, Some("Title cannot be empty"), None)
RatingError == MoviePayload(FALSE, Some("Rating must be between 0 and 5"), None)

\* the claim's own words: a rating outside the closed interval [0, 5] (in
\* tenths), a title that is empty or only whitespace
OutsideZeroToFive(rating) == rating < 0 \/ rating > 50
IsBlank(title) == \A k \in 1..Len(title) : title[k] \in {" ", "\t", "\n", "\r", "\f"}

\* C10 as stated: an authenticated add_movie whose rating is outside [0, 5]
\* returns the rating error, one whose title is blank returns ok=false without
\* a movie, and both leave the catalog unchanged.
C10_AsStated ==
    \A c \in AuthedContexts, i \in AddMovieInputs :
        LET r == add_movie(c, i, Cat) IN
        /\ OutsideZeroToFive(i.rating) => r = Returned(RatingError, Cat)
        /\ IsBlank(i.title)
           => /\ r.raised = "" /\ r.ret.ok = FALSE /\ r.ret.movie = None
              /\ Catalog(r.MOVIES, r.ACTORS, r.NEXT_ID) = Cat

AddMovieRejects ==
    \A c \in AuthedContexts, i \in AddMovieInputs :
        LET r == add_movie(c, i, Cat) IN
        /\ IsBlank(i.title) => r = Returned(TitleError, Cat)
        /\ (~IsBlank(i.title) /\ OutsideZeroToFive(i.rating))
           => r = Returned(RatingError, Cat)

\* C10 as amended: an authenticated add_movie whose title is empty or only
\* whitespace returns {ok: false, error: "Title cannot be empty", movie:
\* absent} whatever its rating; one whose title is not blank and whose rating
\* is outside [0, 5] returns {ok: false, error: "Rating must be between 0 and
\* 5", movie: absent}; in both cases MOVIES, ACTORS and NEXT_ID are unchanged.
C10_AddMovieValidation ==
    /\ []AddMovieRejects
    /\ [][(last'.op = "add_movie" /\ last'.raised = "" /\ ~last'.ret.ok)
          => /\ last'.ret \in {TitleError, RatingError}
             /\ UNCHANGED <<MOVIES, ACTORS, NEXT_ID>>]_vars

\* an authenticated add_movie was rejected for its rating in a catalog that
\* earlier calls had changed
C10_Witness ==
    /\ last.op = "add_movie"
    /\ last.user # None
    /\ last.ret = RatingError
    /\ Len(MOVIES) # Len(SeedMovies)

(***************************************************************************)
(* main.py (specification SpecMain).                                       *)
(***************************************************************************)
MainOps == {"main.add_movie", "main.delete_movie", "main.update_movie"}

\* C8: every catalog-altering mutation of the application main.py mounts
\* passes the auth gate before any side effect: a request without a resolved
\* identity changes neither main.py's MOVIES nor its NEXT_ID.
C8_MainMutationsGated ==
    [][(last'.op \in MainOps /\ last'.user = None)
       => UNCHANGED <<mainMOVIES, mainNEXT_ID>>]_vars

(***************************************************************************)
(* Logout (specification SpecApp).                                         *)
(***************************************************************************)
\* the mutation is refused for this cookie in the current state
Refused(S, cookie) ==
    \A i \in AddMovieInputs :
        add_movie(get_context(S, now, cookie).context, i, Cat)
            = Raised("Login required", Cat)

\* C9 as stated: once a token has been revoked by a logout, it resolves to no
\* identity and every mutation attempted with it is refused, in every later
\* state.
C9_AsStated ==
    \A t \in revoked :
        /\ Absent(get_user_id(SESSIONS, now, Some(t)))
        /\ Refused(SESSIONS, Some(t))

\* C9 as amended: right after delete_session(t) the token resolves to no
\* identity, and as long as no later create_session call returns the same
\* token t again (only a login that draws t puts it back into the store),
\* every request carrying t resolves to no identity, fails with "Login
\* required" and leaves the catalog unchanged, even though mutations with t
\* succeeded before the logout.
C9_RevokedUntilRedrawn ==
    /\ [](/\ last.op = "logout"
             => /\ last.raised = ""
                /\ last.cookie \cap DOMAIN SESSIONS = {}
          /\ \A t \in Uuid4Hex \ DOMAIN SESSIONS :
                /\ Absent(get_user_id(SESSIONS, now, Some(t)))
                /\ Refused(SESSIONS, Some(t)))
    /\ [][/\ \A t \in Uuid4Hex \ DOMAIN SESSIONS :
                t \in DOMAIN SESSIONS'
                => last'.op = "login" /\ last'.ret = Some(t)
          /\ (last'.op = "request" /\ last'.cookie \cap DOMAIN SESSIONS = {})
             => /\ last'.user = None
                /\ last'.raised = "Login required"
                /\ UNCHANGED <<MOVIES, ACTORS, NEXT_ID>>]_vars

\* the only token ever issued added a movie, was revoked, and the same request
\* is now refused
C9_Witness ==
    /\ last.op = "request"
    /\ last.raised = "Login required"
    /\ Truthy(last.cookie)
    /\ last.cookie \subseteq revoked
    /\ Issued = last.cookie
    /\ Len(MOVIES) = Len(SeedMovies) + 1

(***************************************************************************)
(* The catalog's mutations, authenticated (specification SpecCatalog).     *)
(***************************************************************************)
IdsOf(xs) == {xs[k].id : k \in 1..Len(xs)}

AddMovieAccepts ==
    \A c \in AuthedContexts, i \in AddMovieInputs :
        (~IsBlank(i.title) /\ ~OutsideZeroToFive(i.rating))
        => LET r == add_movie(c, i, Cat) IN
           /\ r.raised = ""
           /\ r.ret.ok /\ r.ret.error = None /\ r.ret.movie # None
           /\ LET m == TheValue(r.ret.movie) IN
              /\ m.title = i.title /\ m.year = i.year /\ m.rating = i.rating
              /\ m.id \notin IdsOf(MOVIES)
              /\ r.MOVIES = MOVIES \o <<m>>
              /\ r.ACTORS = ACTORS

\* C11: an authenticated add_movie with a non-blank title and a rating in
\* [0, 5] returns {ok: true, error: absent, movie: m}, m carrying the input's
\* title, year and rating and an id no movie of the catalog had; afterwards
\* MOVIES is its previous contents followed by m.
C11_AddMovieAppends ==
    /\ []AddMovieAccepts
    /\ [][(last'.op = "add_movie" /\ last'.raised = "" /\ last'.ret.ok)
          => /\ last'.ret.error = None
             /\ last'.ret.movie # None
             /\ Len(MOVIES') = Len(MOVIES) + 1
             /\ MOVIES' = MOVIES \o <<TheValue(last'.ret.movie)>>
             /\ TheValue(last'.ret.movie).id \notin IdsOf(MOVIES)]_vars

\* a movie has been added after another one was deleted
C11_Witness ==
    /\ last.op = "add_movie"
    /\ last.raised = ""
    /\ last.ret.ok
    /\ Len(MOVIES) = Len(SeedMovies)
    /\ MOVIES[Len(MOVIES)] = TheValue(last.ret.movie)
    /\ MOVIES[Len(MOVIES)].title = Up


\* the entity field of a mutation's payload
EntityField(op) == IF op \in {"add_movie", "delete_movie", "update_movie"}
                   THEN "movie" ELSE "actor"

\* {ok, error, entity} with ok=true => error absent and entity present,
\* ok=false => entity absent and error present
UniformPayload(ret, entity) ==
    /\ DOMAIN ret = {"ok", "error", entity}
    /\ ret.ok \in BOOLEAN
    /\ ret.ok => (ret.error = None /\ ret[entity] # None)
    /\ ~ret.ok => (ret[entity] = None /\ ret.error # None)

\* C12: every mutation of the graph endpoint returns, on every non-raising
\* path, a payload of the uniform shape {ok, error, entity}: ok=true implies
\* error absent and entity present, ok=false implies entity absent and error
\* present.
C12_UniformPayloads ==
    (last.op \in CatalogOps /\ last.raised = "")
    => UniformPayload(last.ret, EntityField(last.op))


\* the call neither raised nor changed the catalog, and answered ok=false
\* with the entity absent
RefusedInPayload(r, entity) ==
    /\ r.raised = ""
    /\ ~r.ret.ok
    /\ r.ret[entity] = None
    /\ r.MOVIES = MOVIES /\ r.ACTORS = ACTORS /\ r.NEXT_ID = NEXT_ID

MissingTargetRefused ==
    \A c \in AuthedContexts :
        /\ \A i \in DeleteMovieInputs : i.id \notin IdsOf(MOVIES)
              => RefusedInPayload(delete_movie(c, i, Cat), "movie")
        /\ \A i \in UpdateMovieInputs : i.id \notin IdsOf(MOVIES)
              => RefusedInPayload(update_movie(c, i, Cat), "movie")
        /\ \A i \in DeleteActorInputs : i.id \notin IdsOf(ACTORS)
              => RefusedInPayload(delete_actor(c, i, Cat), "actor")
        /\ \A i \in UpdateActorInputs : i.id \notin IdsOf(ACTORS)
              => RefusedInPayload(update_actor(c, i, Cat), "actor")

\* C13: an authenticated delete_movie, update_movie, delete_actor or
\* update_actor call whose target id is not in the corresponding list does
\* not raise; it returns ok=false with the entity absent, and MOVIES, ACTORS
\* and NEXT_ID are unchanged.
C13_MissingTargetInPayload ==
    /\ []MissingTargetRefused
    /\ [][(/\ last'.op \in {"delete_movie", "update_movie",
                            "delete_actor", "update_actor"}
           /\ last'.user # None
           /\ last'.raised = ""
           /\ ~last'.ret.ok)
          => UNCHANGED <<MOVIES, ACTORS, NEXT_ID>>]_vars

\* a delete_movie for an id that is not in MOVIES has been answered
C13_Witness ==
    /\ last.op = "delete_movie"
    /\ last.user # None
    /\ last.raised = ""
    /\ ~last.ret.ok
    /\ last.ret.movie = None
    /\ Len(MOVIES) < Len(SeedMovies)


(***************************************************************************)
(* Concurrency (specifications SpecStoreThreads and SpecCatalogThreads).   *)
(***************************************************************************)
\* every order in which the threads' calls can run one after the other
Orders == {o \in [1..NumThreads -> Threads] :
             \A i, j \in 1..NumThreads : o[i] = o[j] => i = j}

\* the call of thread t, run alone and undivided on store S
Undivided(t, S) ==
    CASE thr[t].op = "get_user_id" -> get_user_id(S, now, thr[t].session_id)
      [] thr[t].op = "create_session" ->
            create_session(S, now, thr[t].user_id, TheValue(thr[t].sid))
      [] thr[t].op = "delete_session" -> delete_session(S, thr[t].session_id)

\* what thread t's call returned is what the undivided call returns
SameResult(t, r) ==
    IF thr[t].op = "get_user_id" THEN thr[t].ret = r.ret ELSE r.raised = ""

RECURSIVE Serial(_, _, _)
\* running the calls one after the other in this order from store S gives
\* the results the threads got and the store as it is now
Serial(order, k, S) ==
    IF k > Len(order) THEN S = SESSIONS
    ELSE LET r == Undivided(order[k], S) IN
         SameResult(order[k], r) /\ Serial(order, k + 1, r.store)

\* C14: the session store's operations are atomic with respect to each
\* other: whatever the interleaving of the steps of concurrent get_user_id,
\* create_session and delete_session calls, the store and every result are
\* those of some sequential ordering of the same calls.
C14_StoreOpsAtomic ==
    AllDone => \E order \in Orders : Serial(order, 1, base)


DistinctIds(xs) == \A i, j \in 1..Len(xs) : xs[i].id = xs[j].id => i = j

\* C15: each catalog mutation is atomic with respect to the others: whatever
\* the interleaving of the steps of concurrent authenticated add_movie and
\* add_actor calls, no list holds two records with the same id, and once the
\* calls have returned NEXT_ID has advanced by exactly the number of
\* successful add_movie calls.
C15_CatalogAddsAtomic ==
    /\ DistinctIds(MOVIES)
    /\ DistinctIds(ACTORS)
    /\ AllIdle => NEXT_ID = SeedNextId + adds.movies


\* what get_user_id does now for every stored session id
StrictExpiry ==
    \A sid \in DOMAIN SESSIONS :
        LET r == get_user_id(SESSIONS, now, Some(sid)) IN
        /\ (r.ret = None \/ r.store # SESSIONS) => SESSIONS[sid].expires_at < now
        /\ SESSIONS[sid].expires_at = now
              => (r.ret = Some(SESSIONS[sid].user_id) /\ r.store = SESSIONS)

\* C16: the expiry comparison is strict: get_user_id deletes the entry and
\* returns absent only when expires_at < now; at now = expires_at exactly it
\* still returns the user id and leaves the entry in the store.
C16_ExpiryIsStrict ==
    /\ []StrictExpiry
    /\ [][(/\ last'.op = "get_user_id"
           /\ last'.arg \subseteq DOMAIN SESSIONS
           /\ last'.arg # None)
          => LET data == SESSIONS[TheValue(last'.arg)] IN
             /\ (last'.ret = None \/ SESSIONS' # SESSIONS) => data.expires_at < now
             /\ data.expires_at = now
                   => (last'.ret = Some(data.user_id) /\ SESSIONS' = SESSIONS)]_vars

\* a session has been resolved at the very minute it expires
C16_Witness ==
    /\ last.op = "get_user_id"
    /\ last.arg # None
    /\ last.arg \subseteq DOMAIN SESSIONS
    /\ SESSIONS[TheValue(last.arg)].expires_at = now
    /\ last.ret = Some(SESSIONS[TheValue(last.arg)].user_id)


\* C17: update_movie called with an id that is not in MOVIES answers with a
\* not-found message of its own, different from the message of the rating
\* validation, "Rating must be between 0 and 5".
C17_NotFoundHasOwnMessage ==
    \A c \in AuthedContexts, i \in UpdateMovieInputs :
        i.id \notin IdsOf(MOVIES)
        => LET r == update_movie(c, i, Cat) IN
           /\ r.raised = ""
           /\ ~r.ret.ok
           /\ r.ret.error # None
           /\ r.ret.error # Some("Rating must be between 0 and 5")


MovieIdsBelowNextId ==
    /\ DistinctIds(MOVIES)
    /\ \A k \in 1..Len(MOVIES) : MOVIES[k].id < NEXT_ID

\* C18: under sequential add_movie, delete_movie and update_movie calls from
\* the seeded state the ids in MOVIES are pairwise distinct and every one is
\* below NEXT_ID; NEXT_ID never decreases; and an id that enters MOVIES is at
\* least the NEXT_ID of before, hence above every id a movie ever had: the id
\* of a deleted movie is never assigned again.
C18_MovieIdsNeverReused ==
    /\ []MovieIdsBelowNextId
    /\ [][/\ NEXT_ID' >= NEXT_ID
          /\ \A id \in IdsOf(MOVIES') \ IdsOf(MOVIES) : id >= NEXT_ID]_vars

\* a movie has been added after a seeded movie was deleted
C18_Witness ==
    /\ last.op = "add_movie"
    /\ last.raised = ""
    /\ last.ret.ok
    /\ NEXT_ID > SeedNextId
    /\ \E k \in 1..Len(SeedMovies) : SeedMovies[k].id \notin IdsOf(MOVIES)


\* C19: under sequential add_actor, delete_actor and update_actor calls from
\* the seeded state the ids in ACTORS are pairwise distinct in every
\* reachable state: add_actor assigns the largest id in the list plus one (1
\* when the list is empty) and update_actor never changes an id.
C19_ActorIdsDistinct ==
    /\ [](DistinctIds(ACTORS) /\ \A k \in 1..Len(ACTORS) : ACTORS[k].id >= 1)
    /\ [][/\ last'.op = "add_actor" /\ last'.raised = ""
             => /\ ACTORS' = Append(ACTORS, last'.ret)
                /\ \A k \in 1..Len(ACTORS) : ACTORS[k].id < last'.ret.id
                /\ ACTORS = <<>> => last'.ret.id = 1
          /\ last'.op = "update_actor"
             => /\ Len(ACTORS') = Len(ACTORS)
                /\ \A k \in 1..Len(ACTORS) : ACTORS'[k].id = ACTORS[k].id]_vars

\* every actor has been deleted and one has been added to the empty list
C19_Witness ==
    /\ last.op = "add_actor"
    /\ last.raised = ""
    /\ Len(ACTORS) = 1
    /\ ACTORS[1].id = 1


\* the field after the update: the supplied value, or the previous one when
\* none was supplied
Overwritten(supplied, previous) ==
    IF supplied = None THEN previous ELSE TheValue(supplied)

UpdateMovieFrame ==
    \A c \in AuthedContexts, i \in UpdateMovieInputs :
        \A k \in 1..Len(MOVIES) :
            MOVIES[k].id = i.id
            => LET r == update_movie(c, i, Cat) IN
               /\ r.raised = ""
               /\ r.ACTORS = ACTORS /\ r.NEXT_ID = NEXT_ID
               /\ Len(r.MOVIES) = Len(MOVIES)
               /\ \A j \in 1..Len(MOVIES) : j # k => r.MOVIES[j] = MOVIES[j]
               /\ IF i.rating # None /\ OutsideZeroToFive(TheValue(i.rating))
                  THEN ~r.ret.ok /\ r.MOVIES[k] = MOVIES[k]
                  ELSE /\ r.ret.ok
                       /\ r.MOVIES[k].id = MOVIES[k].id
                       /\ r.MOVIES[k].title = Overwritten(i.title, MOVIES[k].title)
                       /\ r.MOVIES[k].year = Overwritten(i.year, MOVIES[k].year)
                       /\ r.MOVIES[k].rating = Overwritten(i.rating, MOVIES[k].rating)

\* C20: update_movie is all-or-nothing and partial: with a rating outside
\* [0, 5] no field of the movie changes, whatever title or year came with it;
\* on success exactly the supplied fields are overwritten, the others keep
\* their value, the id stays, and every other movie, ACTORS and NEXT_ID are
\* unchanged.
C20_UpdateMovieFrame ==
    /\ []UpdateMovieFrame
    /\ [][(last'.op = "update_movie" /\ last'.raised = "")
          => /\ UNCHANGED <<ACTORS, NEXT_ID>>
             /\ Len(MOVIES') = Len(MOVIES)
             /\ \A k \in 1..Len(MOVIES) : MOVIES'[k].id = MOVIES[k].id
             /\ ~last'.ret.ok => MOVIES' = MOVIES
             /\ last'.ret.ok
                   => \A k \in 1..Len(MOVIES) :
                         MOVIES'[k].id # TheValue(last'.ret.movie).id
                         => MOVIES'[k] = MOVIES[k]]_vars

\* an update that supplied the title only has been applied to a seeded movie
C20_Witness ==
    /\ last.op = "update_movie"
    /\ last.raised = ""
    /\ last.ret.ok
    /\ \E k \in 1..Len(MOVIES), s \in 1..Len(SeedMovies) :
          /\ MOVIES[k] = TheValue(last.ret.movie)
          /\ MOVIES[k].id = SeedMovies[s].id
          /\ MOVIES[k].title = Up
          /\ MOVIES[k].year = SeedMovies[s].year
          /\ MOVIES[k].rating = SeedMovies[s].rating

====
